---- MODULE Spec2Model ----
(***************************************************************************)
(* A model of the presence payload synthesizer of discord-vscode:          *)
(* src/src/activity.ts (fileDetails, details, activity).                   *)
(*                                                                         *)
(* Strings are sequences of string atoms.  A remote URL is a sequence of   *)
(* single characters, so that startsWith / replace / split act on it as    *)
(* the JavaScript string methods do.  A template is a sequence whose atoms *)
(* are literal pieces of text and replacement tokens.                      *)
(* An optional value (a field that may be undefined) is <<>> when it is    *)
(* undefined and <<v>> when it holds v.                                    *)
(***************************************************************************)
EXTENDS Integers, Sequences, FiniteSets, TLC

VARIABLES
    window,     \* window.activeTextEditor: None, or Some(document)
    debug,      \* debug.activeDebugSession is set
    config,     \* what getConfig() returns
    git,        \* what getGit() resolves to: None, or Some(repositories)
    appName,    \* env.appName
    clock,      \* Date.now()
    calls,      \* the activity() calls in flight, suspended at await getGit()
    state,      \* the caller's payload: the one delivered last
    last,       \* the activity() call that returned last, with what it read
    fd,         \* the fileDetails() call
    url         \* the repository-URL normalization, applied once and twice

vars == <<window, debug, config, git, appName, clock, calls, state, last, fd, url>>

---------------------------------------------------------------------------
(* Optional values *)

None == <<>>

Some(v) == <<v>>

\* a ?? b
Coalesce(a, b) == IF a = None THEN b ELSE a[1]

---------------------------------------------------------------------------
(* String.prototype methods, on sequences of atoms *)

\* s.startsWith(p)
startsWith(s, p) == Len(s) >= Len(p) /\ SubSeq(s, 1, Len(p)) = p

\* p occurs in s at index i (1-based)
OccursAt(s, p, i) == i >= 1 /\ i + Len(p) - 1 <= Len(s) /\ SubSeq(s, i, i + Len(p) - 1) = p

\* s.indexOf(p), 1-based; 0 when p does not occur
indexOf(s, p) ==
    IF \E i \in 1..Len(s) : OccursAt(s, p, i)
    THEN CHOOSE i \in 1..Len(s) : OccursAt(s, p, i) /\ \A j \in 1..(i - 1) : ~OccursAt(s, p, j)
    ELSE 0

\* s.includes(p)
includes(s, p) == indexOf(s, p) # 0

\* s.replace(p, r) with a string pattern: the first occurrence only
replace(s, p, r) ==
    LET i == indexOf(s, p)
    IN  IF i = 0 THEN s
        ELSE SubSeq(s, 1, i - 1) \o r \o SubSeq(s, i + Len(p), Len(s))

\* s.split(c)[1]: the piece between the first and the second c; None when
\* s holds no c (the array has one element)
splitSecond(s, c) ==
    LET i == indexOf(s, <<c>>)
    IN  IF i = 0 THEN None
        ELSE LET rest == SubSeq(s, i + 1, Len(s))
                 j == indexOf(rest, <<c>>)
             IN  Some(IF j = 0 THEN rest ELSE SubSeq(rest, 1, j - 1))

---------------------------------------------------------------------------
(* Remote URLs *)

SSH == <<"s", "s", "h", ":", "/", "/">>
GITAT == <<"g", "i", "t", "@">>
HTTPS == <<"h", "t", "t", "p", "s", ":", "/", "/">>
DOTGIT == <<".", "g", "i", "t">>
COLON == <<":">>
SLASH == <<"/">>
AT == <<"@">>

\* repo.replace(/(https:\/\/)([^@]*)@(.*?$)/, '$1$3'): the leftmost https://
\* that an @ follows loses everything up to and including the first such @
stripCredentials(repo) ==
    LET i == indexOf(repo, HTTPS)
    IN  IF i = 0 THEN repo
        ELSE LET tail == SubSeq(repo, i + Len(HTTPS), Len(repo))
                 j == indexOf(tail, AT)
             IN  IF j = 0 THEN repo
                 ELSE SubSeq(repo, 1, i + Len(HTTPS) - 1) \o SubSeq(tail, j + 1, Len(tail))

\* activity(): the fetch URL made browsable
normalizeRepo(repo) ==
    IF startsWith(repo, GITAT) \/ startsWith(repo, SSH)
    THEN replace(replace(replace(replace(repo, SSH, <<>>), COLON, SLASH), GITAT, HTTPS), DOTGIT, <<>>)
    ELSE replace(stripCredentials(repo), DOTGIT, <<>>)

\* The pieces the fetch URLs of the model are made of
HostGithub == <<"g", "i", "t", "h", "u", "b", ".", "c", "o", "m">>
HostGitlab == <<"m", "y", ".", "g", "i", "t", "l", "a", "b", ".", "i", "o">>
HostPlain == <<"h", "o", "s", "t">>
PathRepo == <<"o", "w", "n", "e", "r", "/", "r", "e", "p", "o">>
PathPages == <<"o", "w", "n", "e", "r", "/", "m", "y", ".", "g", "i", "t", "h", "u", "b", ".", "i", "o">>
PathShort == <<"o", "/", "r">>
User == <<"u", "s", "e", "r">>
UserPass == <<"u", "s", "e", "r", ":", "p", "a", "s", "s">>

Hosts == {HostGithub, HostGitlab, HostPlain}
Paths == {PathRepo, PathPages, PathShort}
Suffixes == {<<>>, DOTGIT}

\* git@host:path[.git]
ScpUrls == {GITAT \o h \o COLON \o p \o s : h \in Hosts, p \in Paths, s \in Suffixes}
\* ssh://git@host/path[.git]
SshUrls == {SSH \o GITAT \o h \o SLASH \o p \o s : h \in Hosts, p \in Paths, s \in Suffixes}
\* https://[user[:password]@]host/path[.git]
HttpsUrls ==
    {HTTPS \o c \o h \o SLASH \o p \o s :
        c \in {<<>>, User \o AT, UserPass \o AT}, h \in Hosts, p \in Paths, s \in Suffixes}

RecognizedUrls == ScpUrls \cup SshUrls \cup HttpsUrls

GithubScpUrl == GITAT \o HostGithub \o COLON \o PathRepo \o DOTGIT
GithubCredUrl == HTTPS \o UserPass \o AT \o HostGithub \o SLASH \o PathRepo \o DOTGIT
GithubBrowseUrl == HTTPS \o HostGithub \o SLASH \o PathRepo

---------------------------------------------------------------------------
(* The normalization applied to its own output *)

UrlInit == url = [pc |-> "input", input |-> None, once |-> None, twice |-> None]

UrlPick(u) ==
    /\ url.pc = "input"
    /\ url' = [url EXCEPT !.pc = "picked", !.input = Some(u)]

UrlNormalizeOnce ==
    /\ url.pc = "picked"
    /\ url' = [url EXCEPT !.pc = "once", !.once = Some(normalizeRepo(url.input[1]))]

UrlNormalizeTwice ==
    /\ url.pc = "once"
    /\ url' = [url EXCEPT !.pc = "twice", !.twice = Some(normalizeRepo(url.once[1]))]

---------------------------------------------------------------------------
(* Constants imported from ./constants *)

IDLE_IMAGE_KEY == "IDLE_IMAGE_KEY"
DEBUG_IMAGE_KEY == "DEBUG_IMAGE_KEY"
CURSOR_IMAGE_KEY == "CURSOR_IMAGE_KEY"
VSCODE_IMAGE_KEY == "VSCODE_IMAGE_KEY"
VSCODE_INSIDERS_IMAGE_KEY == "VSCODE_INSIDERS_IMAGE_KEY"
FAKE_EMPTY == "FAKE_EMPTY"
UNKNOWN_GIT_BRANCH == <<"UNKNOWN_GIT_BRANCH">>
UNKNOWN_GIT_REPO_NAME == <<"UNKNOWN_GIT_REPO_NAME">>

\* REPLACE_KEYS: a token is one atom of a template
REPLACE_KEYS ==
    [TotalLines |-> "{total_lines}", CurrentLine |-> "{current_line}",
     CurrentColumn |-> "{current_column}", FileSize |-> "{file_size}",
     GitBranch |-> "{git_branch}", GitRepoName |-> "{git_repo_name}",
     AppName |-> "{app_name}", LanguageLowerCase |-> "{lang}",
     LanguageTitleCase |-> "{Lang}", LanguageUpperCase |-> "{LANG}"]

---------------------------------------------------------------------------
(* The host: editor, debugger, configuration, source control *)

\* A TextDocument with the active selection of its editor; icon is what
\* resolveFileIcon(document) answers
Docs ==
    {[icon |-> "typescript", lineCount |-> 120, textLength |-> 1500, line |-> 9, character |-> 0],
     [icon |-> "text", lineCount |-> 1, textLength |-> 0, line |-> 0, character |-> 3]}

Windows == {None} \cup {Some(d) : d \in Docs}

\* env.appName, word by word
AppNames ==
    {<<"Visual", "Studio", "Code">>, <<"Visual", "Studio", "Code", "-", "Insiders">>, <<"Cursor">>}

EditingTemplates ==
    {<<"Editing ", REPLACE_KEYS.TotalLines, " lines">>, <<"In the zone">>}

DebuggingTemplates ==
    {<<"Debugging at ", REPLACE_KEYS.CurrentLine>>, <<"Hunting bugs">>}

Configs ==
    [SwapBigAndSmallImage : BOOLEAN,
     RemoveDetails : BOOLEAN,
     RemoveLowerDetails : BOOLEAN,
     RemoveRemoteRepository : BOOLEAN,
     RemoveTimestamp : BOOLEAN,
     DetailsIdling : {<<"Idling">>},
     DetailsEditing : EditingTemplates,
     DetailsDebugging : DebuggingTemplates,
     LowerDetailsIdling : {<<"Idle">>},
     LowerDetailsEditing : {<<"Workspace">>},
     LowerDetailsDebugging : {<<"Workspace, debugging">>},
     LargeImage : {<<"Editing a ", REPLACE_KEYS.LanguageUpperCase, " file">>},
     LargeImageIdling : {<<"Idling">>},
     SmallImage : {<<REPLACE_KEYS.AppName>>}]

\* A repository of the git extension: ui.selected, state.HEAD?.name and
\* state.remotes[..].fetchUrl
Repo(selected, head, fetchUrls) ==
    [selected |-> selected, HEAD |-> head, remotes |-> [i \in 1..Len(fetchUrls) |-> [fetchUrl |-> fetchUrls[i]]]]

GitSnapshots ==
    {None,
     Some(<<>>),
     Some(<<Repo(FALSE, Some(<<"main">>), <<Some(GithubScpUrl)>>)>>),
     Some(<<Repo(TRUE, None, <<>>)>>),
     Some(<<Repo(TRUE, Some(<<"main">>), <<None>>)>>),
     Some(<<Repo(TRUE, Some(<<"main">>), <<Some(<<>>)>>)>>),
     Some(<<Repo(TRUE, Some(<<"main">>), <<Some(GithubScpUrl), Some(GithubCredUrl)>>)>>),
     Some(<<Repo(FALSE, None, <<Some(GithubScpUrl)>>), Repo(FALSE, None, <<Some(GithubCredUrl)>>)>>),
     Some(<<Repo(FALSE, None, <<Some(GithubScpUrl)>>), Repo(TRUE, Some(<<"dev">>), <<Some(GithubCredUrl)>>)>>),
     Some(<<Repo(TRUE, None, <<None>>), Repo(TRUE, Some(<<"dev">>), <<Some(GithubCredUrl)>>)>>)}

\* repositories.find((repo) => repo.ui.selected): None when there is none
findSelected(repositories) ==
    IF \E i \in 1..Len(repositories) : repositories[i].selected
    THEN Some(repositories[CHOOSE i \in 1..Len(repositories) :
                  /\ repositories[i].selected
                  /\ \A j \in 1..(i - 1) : ~repositories[j].selected])
    ELSE None

\* git.repositories.find(...)?.state.remotes[0]?.fetchUrl
selectedFetchUrl(repositories) ==
    LET r == findSelected(repositories)
    IN  IF r = None THEN None
        ELSE IF Len(r[1].remotes) = 0 THEN None
        ELSE r[1].remotes[1].fetchUrl

---------------------------------------------------------------------------
(* ActivityPayload: every field optional *)

EmptyPayload ==
    [type |-> None, details |-> None, state |-> None, startTimestamp |-> None,
     largeImageKey |-> None, largeImageText |-> None,
     smallImageKey |-> None, smallImageText |-> None, buttons |-> None]

---------------------------------------------------------------------------
(* Helpers imported from ./util; their code is not part of the sources *)

toLower(key) == "lower(" \o key \o ")"
toTitle(key) == "title(" \o key \o ")"
toUpper(key) == "upper(" \o key \o ")"

\* resolveFileIcon(document)
resolveFileIcon(document) == document.icon

---------------------------------------------------------------------------
(* details() and activity() *)

\* The number of characters of a text
RECURSIVE charLength(_)
charLength(text) == IF text = <<>> THEN 0 ELSE Len(Head(text)) + charLength(Tail(text))

\* text.padEnd(n, fill), fill standing for one filler character
padEnd(text, n, fill) ==
    IF charLength(text) >= n THEN text
    ELSE text \o [i \in 1..(n - charLength(text)) |-> fill]

\* A plausible slip: the debug session is looked at before the editor
detailsDebugFirst(idling, editing, debugging) ==
    IF debug THEN <<"Debugging Code">>
    ELSE IF window = None THEN config[idling]
    ELSE <<"Playing Code">>

\* details(idling, editing, debugging): the text of a slot
details(idling, editing, debugging) ==
    IF window = None THEN config[idling]
    ELSE IF debug THEN <<"Debugging Code">>
    ELSE <<"Playing Code">>

\* defaultSmallImageKey
defaultSmallImageKey ==
    IF debug THEN DEBUG_IMAGE_KEY
    ELSE IF includes(appName, <<"Cursor">>) THEN CURSOR_IMAGE_KEY
    ELSE IF includes(appName, <<"Insiders">>) THEN VSCODE_INSIDERS_IMAGE_KEY
    ELSE VSCODE_IMAGE_KEY

\* activity(previous) up to await getGit(): what it has read so far
activityLocals(previous) ==
    [previous |-> previous,
     config |-> config,
     defaultSmallImageKey |-> defaultSmallImageKey,
     defaultSmallImageText |-> replace(config.SmallImage, <<REPLACE_KEYS.AppName>>, appName),
     defaultLargeImageText |-> config.LargeImageIdling]

\* A plausible slip: the anchor is taken anew on every refresh
startTimestampRecomputed(l) ==
    IF l.config.RemoveTimestamp THEN None ELSE Some(clock)

\* startTimestamp: the previous anchor, or now
startTimestamp(l) ==
    IF l.config.RemoveTimestamp THEN None
    ELSE Some(Coalesce(l.previous.startTimestamp, clock))

\* let state = { ... }
initialState(l) ==
    [type |-> Some(0),
     details |-> IF l.config.RemoveDetails THEN None
                 ELSE Some(details("DetailsIdling", "DetailsEditing", "DetailsDebugging")),
     state |-> None,
     startTimestamp |-> startTimestamp(l),
     largeImageKey |-> Some(IDLE_IMAGE_KEY),
     largeImageText |-> Some(l.defaultLargeImageText),
     smallImageKey |-> Some(l.defaultSmallImageKey),
     smallImageText |-> Some(l.defaultSmallImageText),
     buttons |-> None]

\* A plausible slip: the keys change places and the texts stay
swapImagesKeysOnly(s, l) ==
    IF l.config.SwapBigAndSmallImage
    THEN [s EXCEPT !.largeImageKey = Some(l.defaultSmallImageKey),
                   !.smallImageKey = Some(IDLE_IMAGE_KEY)]
    ELSE s

\* if (swapBigAndSmallImage) { state = { ...state, ... } }
swapImages(s, l) ==
    IF l.config.SwapBigAndSmallImage
    THEN [s EXCEPT !.largeImageKey = Some(l.defaultSmallImageKey),
                   !.largeImageText = Some(l.defaultSmallImageText),
                   !.smallImageKey = Some(IDLE_IMAGE_KEY),
                   !.smallImageText = Some(l.defaultLargeImageText)]
    ELSE s

\* A plausible slip: with no selected repository the first one is taken
repositoryButtonFirstRepo(s, l) ==
    IF ~l.config.RemoveRemoteRepository /\ git # None /\ Len(git[1]) # 0
    THEN LET sel == selectedFetchUrl(git[1])
             first == IF Len(git[1][1].remotes) = 0 THEN None ELSE git[1][1].remotes[1].fetchUrl
             repo == IF findSelected(git[1]) = None THEN first ELSE sel
         IN  IF repo # None /\ repo[1] # <<>>
             THEN [s EXCEPT !.buttons = Some(<<[label |-> "View Repository", url |-> normalizeRepo(repo[1])]>>)]
             ELSE s
    ELSE s

\* The repository button
repositoryButton(s, l) ==
    IF ~l.config.RemoveRemoteRepository /\ git # None /\ Len(git[1]) # 0
    THEN LET repo == selectedFetchUrl(git[1])
         IN  IF repo # None /\ repo[1] # <<>>
             THEN [s EXCEPT !.buttons = Some(<<[label |-> "View Repository", url |-> normalizeRepo(repo[1])]>>)]
             ELSE s
    ELSE s

\* const largeImageText = config[LargeImage].replace(...).replace(...).replace(...).padEnd(2, FAKE_EMPTY)
fileImageText(l, largeImageKey) ==
    padEnd(replace(replace(replace(l.config.LargeImage,
                <<REPLACE_KEYS.LanguageLowerCase>>, <<toLower(largeImageKey)>>),
                <<REPLACE_KEYS.LanguageTitleCase>>, <<toTitle(largeImageKey)>>),
                <<REPLACE_KEYS.LanguageUpperCase>>, <<toUpper(largeImageKey)>>),
           2, FAKE_EMPTY)

\* if (window.activeTextEditor) { ... }: file icon, language and the state line
fileIcon(s, l) ==
    IF window # None
    THEN LET largeImageKey == resolveFileIcon(window[1])
             largeImageText == fileImageText(l, largeImageKey)
             t == [s EXCEPT !.state =
                      IF l.config.RemoveLowerDetails THEN None
                      ELSE Some(details("LowerDetailsIdling", "LowerDetailsEditing", "LowerDetailsDebugging"))]
         IN  IF l.config.SwapBigAndSmallImage
             THEN [t EXCEPT !.smallImageKey = Some(largeImageKey), !.smallImageText = Some(largeImageText)]
             ELSE [t EXCEPT !.largeImageKey = Some(largeImageKey), !.largeImageText = Some(largeImageText)]
    ELSE s

\* activity(previous) from the return of getGit() to its own return
activityReturn(l) == fileIcon(repositoryButton(swapImages(initialState(l), l), l), l)

---------------------------------------------------------------------------
(* fileDetails() *)

FILE_SIZES(currentDivision) == "FILE_SIZES[" \o ToString(currentDivision) \o "]"

RECURSIVE pow1000(_)
pow1000(k) == IF k = 0 THEN 1 ELSE 1000 * pow1000(k - 1)

\* n.toLocaleString(), en-US grouping, for n below a million
toLocaleString(n) ==
    IF n < 1000 THEN ToString(n)
    ELSE LET r == n % 1000
         IN  ToString(n \div 1000) \o ","
                 \o (IF r < 10 THEN "00" ELSE IF r < 100 THEN "0" ELSE "") \o ToString(r)

\* currentDivision once the loops end: the divisions by 1000 it takes to
\* bring a size above 1000 down to 1000 or less
RECURSIVE divisions(_, _)
divisions(originalSize, k) ==
    IF originalSize > 1000 * pow1000(k) THEN divisions(originalSize, k + 1) ELSE k

\* (originalSize / 1000^k).toFixed(2)
toFixed2(originalSize, k) ==
    LET h == (2 * 100 * originalSize + pow1000(k)) \div (2 * pow1000(k))
        c == h % 100
    IN  ToString(h \div 100) \o "." \o (IF c < 10 THEN "0" ELSE "") \o ToString(c)

\* `${originalSize > 1000 ? size.toFixed(2) : size}${FILE_SIZES[currentDivision]}`
formatSize(originalSize) ==
    LET currentDivision == divisions(originalSize, 0)
    IN  <<(IF originalSize > 1000 THEN toFixed2(originalSize, currentDivision) ELSE ToString(originalSize))
            \o FILE_SIZES(currentDivision)>>

\* The three synchronous substitutions: line count, line and column
substituteLines(raw, document) ==
    LET a == IF includes(raw, <<REPLACE_KEYS.TotalLines>>)
             THEN replace(raw, <<REPLACE_KEYS.TotalLines>>, <<toLocaleString(document.lineCount)>>)
             ELSE raw
        b == IF includes(a, <<REPLACE_KEYS.CurrentLine>>)
             THEN replace(a, <<REPLACE_KEYS.CurrentLine>>, <<toLocaleString(document.line + 1)>>)
             ELSE a
    IN  IF includes(b, <<REPLACE_KEYS.CurrentColumn>>)
        THEN replace(b, <<REPLACE_KEYS.CurrentColumn>>, <<toLocaleString(document.character + 1)>>)
        ELSE b

\* A plausible slip: the catch clause leaves the size at zero
statSizeNoFallback(outcome, document) == Coalesce(outcome, 0)

\* try { ({ size } = await workspace.fs.stat(document.uri)) } catch { size = document.getText().length }
\* outcome is None when stat throws
statSize(outcome, document) == Coalesce(outcome, document.textLength)

\* git?.repositories.find((repo) => repo.ui.selected)?.state.HEAD?.name ?? UNKNOWN_GIT_BRANCH
gitBranch(g) ==
    IF g = None THEN UNKNOWN_GIT_BRANCH
    ELSE LET r == findSelected(g[1])
         IN  IF r = None THEN UNKNOWN_GIT_BRANCH ELSE Coalesce(r[1].HEAD, UNKNOWN_GIT_BRANCH)

\* git?.repositories.find(...)?.state.remotes[0]?.fetchUrl?.split('/')[1]?.replace('.git', '')
\*     ?? UNKNOWN_GIT_REPO_NAME
gitRepoName(g) ==
    IF g = None THEN UNKNOWN_GIT_REPO_NAME
    ELSE LET fetchUrl == selectedFetchUrl(g[1])
         IN  IF fetchUrl = None THEN UNKNOWN_GIT_REPO_NAME
             ELSE LET piece == splitSecond(fetchUrl[1], "/")
                  IN  IF piece = None THEN UNKNOWN_GIT_REPO_NAME
                      ELSE replace(piece[1], DOTGIT, <<>>)

\* The two source-control substitutions
substituteGit(raw, g) ==
    LET a == IF includes(raw, <<REPLACE_KEYS.GitBranch>>)
             THEN replace(raw, <<REPLACE_KEYS.GitBranch>>, gitBranch(g))
             ELSE raw
    IN  IF includes(a, <<REPLACE_KEYS.GitRepoName>>)
        THEN replace(a, <<REPLACE_KEYS.GitRepoName>>, gitRepoName(g))
        ELSE a

FdTemplates ==
    {<<>>,
     <<"Working">>,
     <<REPLACE_KEYS.TotalLines, " lines">>,
     <<"Ln ", REPLACE_KEYS.CurrentLine, ", Col ", REPLACE_KEYS.CurrentColumn>>,
     <<"Size ", REPLACE_KEYS.FileSize>>,
     <<REPLACE_KEYS.FileSize, " on ", REPLACE_KEYS.GitBranch>>,
     <<REPLACE_KEYS.GitRepoName, "@", REPLACE_KEYS.GitBranch>>,
     <<REPLACE_KEYS.TotalLines, " ", REPLACE_KEYS.FileSize, " ", REPLACE_KEYS.GitRepoName>>}

\* What workspace.fs.stat answers: a size, or None when it throws
StatOutcomes == {None, Some(0), Some(1000), Some(1001), Some(1500000)}

\* fileDetails(_raw, document, selection) is called and runs to its first
\* await: the stat when the template holds the size token, else getGit()
FdCall(template, document) ==
    /\ fd.pc = "idle"
    /\ LET raw == substituteLines(template, document)
           sized == includes(raw, <<REPLACE_KEYS.FileSize>>)
       IN  fd' = [pc |-> IF sized THEN "stat" ELSE "git",
                  template |-> template, document |-> document, raw |-> raw,
                  statCalls |-> IF sized THEN 1 ELSE 0,
                  gitCalls |-> IF sized THEN 0 ELSE 1,
                  statFailed |-> FALSE, size |-> None, result |-> None]
    /\ UNCHANGED <<window, debug, config, git, appName, clock, calls, state, last, url>>

\* The stat settles; the size is formatted and substituted, and getGit()
\* is awaited
FdStat(outcome) ==
    /\ fd.pc = "stat"
    /\ LET size == statSize(outcome, fd.document)
       IN  fd' = [fd EXCEPT !.pc = "git",
                            !.statFailed = (outcome = None),
                            !.size = Some(size),
                            !.raw = replace(fd.raw, <<REPLACE_KEYS.FileSize>>, formatSize(size)),
                            !.gitCalls = 1]
    /\ UNCHANGED <<window, debug, config, git, appName, clock, calls, state, last, url>>

\* getGit() resolves; branch and repository name are substituted and the
\* text is returned
FdGit ==
    /\ fd.pc = "git"
    /\ fd' = [fd EXCEPT !.pc = "done", !.result = Some(substituteGit(fd.raw, git))]
    /\ UNCHANGED <<window, debug, config, git, appName, clock, calls, state, last, url>>

---------------------------------------------------------------------------
(* The caller of activity(): the refresh loop.  Its code is not part of   *)
(* the sources; it is modelled from the specification's section 5.        *)

MaxCalls == 2
MaxClock == 2

CallIds == 1..MaxCalls

InFlight == \E c \in CallIds : calls[c] # None

\* A plausible slip: whatever returns is delivered
deliversAlways(call) == TRUE

\* Only the result of the most recently triggered refresh is delivered
delivers(call) == ~call.superseded

\* A refresh is triggered: activity(state) is called and runs up to
\* await getGit(); the refreshes still in flight are no longer the latest
Refresh(c) ==
    /\ calls[c] = None
    /\ calls' = [d \in CallIds |->
                    IF d = c
                    THEN Some([l |-> activityLocals(state.payload),
                               prevHidden |-> state.hidden,
                               superseded |-> FALSE])
                    ELSE IF calls[d] = None THEN None
                    ELSE Some([calls[d][1] EXCEPT !.superseded = TRUE])]
    /\ UNCHANGED <<window, debug, config, git, appName, clock, state, last, fd, url>>

\* getGit() resolves: activity() runs to its return, and the caller takes
\* the payload
Resume(c) ==
    /\ calls[c] # None
    /\ LET call == calls[c][1]
           result == activityReturn(call.l)
           delivered == delivers(call)
       IN  /\ state' = IF delivered
                       THEN [payload |-> result, hidden |-> Some(call.l.config.RemoveTimestamp)]
                       ELSE state
           /\ last' = Some([l |-> call.l, prevHidden |-> call.prevHidden,
                            superseded |-> call.superseded, delivered |-> delivered,
                            window |-> window, debug |-> debug, git |-> git, config |-> config,
                            result |-> result, stateBefore |-> state.payload])
    /\ calls' = [calls EXCEPT ![c] = None]
    /\ UNCHANGED <<window, debug, config, git, appName, clock, fd, url>>

\* The user opens, switches or closes the active editor
EditorChange(w) ==
    /\ w # window
    /\ window' = w
    /\ UNCHANGED <<debug, config, git, appName, clock, calls, state, last, fd, url>>

\* A debug session starts or ends
DebugChange ==
    /\ debug' = ~debug
    /\ UNCHANGED <<window, config, git, appName, clock, calls, state, last, fd, url>>

\* The user sets or unsets the hide-timestamp option
TimestampOptionChange ==
    /\ config' = [config EXCEPT !.RemoveTimestamp = ~config.RemoveTimestamp]
    /\ UNCHANGED <<window, debug, git, appName, clock, calls, state, last, fd, url>>

\* Time passes
Tick ==
    /\ clock < MaxClock
    /\ clock' = clock + 1
    /\ UNCHANGED <<window, debug, config, git, appName, calls, state, last, fd, url>>

FdIdle == fd = [pc |-> "idle"]

CallsInit ==
    /\ calls = [c \in CallIds |-> None]
    /\ state = [payload |-> EmptyPayload, hidden |-> None]
    /\ last = None

DefaultConfig ==
    CHOOSE c \in Configs :
        /\ ~c.SwapBigAndSmallImage /\ ~c.RemoveDetails /\ ~c.RemoveLowerDetails
        /\ ~c.RemoveRemoteRepository /\ ~c.RemoveTimestamp

---------------------------------------------------------------------------
(* Spec: one refresh at a time, from every editor state, configuration    *)
(* and source-control snapshot; the editor and the debugger change while  *)
(* the refresh awaits getGit() (what they do between two refreshes is an  *)
(* initial state)                                                          *)

Init ==
    /\ window \in Windows
    /\ debug \in BOOLEAN
    /\ config \in {c \in Configs : ~c.RemoveTimestamp /\ c.DetailsDebugging = DefaultConfig.DetailsDebugging}
    /\ git \in GitSnapshots
    /\ appName \in AppNames
    /\ clock = 0
    /\ CallsInit
    /\ FdIdle
    /\ UrlInit

Next ==
    \/ Refresh(1)
    \/ Resume(1)
    \/ InFlight /\ \E w \in Windows : EditorChange(w)
    \/ InFlight /\ DebugChange

Spec == Init /\ [][Next]_vars

---------------------------------------------------------------------------
(* SpecRefresh: refreshes that overlap, the clock and the hide-timestamp  *)
(* option                                                                  *)

InitRefresh ==
    /\ window \in {None, Some(CHOOSE d \in Docs : d.icon = "typescript")}
    /\ debug = FALSE
    /\ config = DefaultConfig
    /\ git = None
    /\ appName = <<"Visual", "Studio", "Code">>
    /\ clock = 0
    /\ CallsInit
    /\ FdIdle
    /\ UrlInit

NextRefresh ==
    \/ \E c \in CallIds : Refresh(c)
    \/ \E c \in CallIds : Resume(c)
    \/ TimestampOptionChange
    \/ Tick

SpecRefresh == InitRefresh /\ [][NextRefresh]_vars

---------------------------------------------------------------------------
(* SpecUrl: the normalization of every recognized fetch URL, twice *)

InitUrl ==
    /\ window = None
    /\ debug = FALSE
    /\ config = DefaultConfig
    /\ git = None
    /\ appName = <<"Visual", "Studio", "Code">>
    /\ clock = 0
    /\ CallsInit
    /\ FdIdle
    /\ UrlInit

NextUrl ==
    \/ /\ \E u \in RecognizedUrls : UrlPick(u)
       /\ UNCHANGED <<window, debug, config, git, appName, clock, calls, state, last, fd>>
    \/ /\ UrlNormalizeOnce
       /\ UNCHANGED <<window, debug, config, git, appName, clock, calls, state, last, fd>>
    \/ /\ UrlNormalizeTwice
       /\ UNCHANGED <<window, debug, config, git, appName, clock, calls, state, last, fd>>

SpecUrl == InitUrl /\ [][NextUrl]_vars

---------------------------------------------------------------------------
(* SpecFile: fileDetails() on every template, document, stat outcome and  *)
(* source-control snapshot                                                 *)

InitFile ==
    /\ window = None
    /\ debug = FALSE
    /\ config = DefaultConfig
    /\ git \in GitSnapshots
    /\ appName = <<"Visual", "Studio", "Code">>
    /\ clock = 0
    /\ CallsInit
    /\ FdIdle
    /\ UrlInit

NextFile ==
    \/ \E t \in FdTemplates, d \in Docs : FdCall(t, d)
    \/ \E o \in StatOutcomes : FdStat(o)
    \/ FdGit

SpecFile == InitFile /\ [][NextFile]_vars

---------------------------------------------------------------------------
(* The claims *)

\* C1: along refreshes where each activity() call receives the payload the
\* previous one returned, the start timestamp of payload N+1 equals that of
\* payload N when both were built with timestamps enabled, and is absent
\* from both when both were built with timestamps disabled.
C1_StartTimestampCarried ==
    last # None =>
        LET r == last[1]
        IN  /\ (r.prevHidden = Some(FALSE) /\ ~r.l.config.RemoveTimestamp)
                   => /\ r.result.startTimestamp # None
                      /\ r.result.startTimestamp = r.l.previous.startTimestamp
            /\ (r.prevHidden = Some(TRUE) /\ r.l.config.RemoveTimestamp)
                   => /\ r.result.startTimestamp = None
                      /\ r.l.previous.startTimestamp = None

\* A refresh with timestamps enabled returned the anchor of the payload it
\* received, after the clock had moved past it
C1_Witness ==
    /\ last # None
    /\ last[1].prevHidden = Some(FALSE)
    /\ ~last[1].l.config.RemoveTimestamp
    /\ last[1].result.startTimestamp # None
    /\ last[1].result.startTimestamp[1] < clock

\* C2: details() selects idle whenever there is no active document, whatever
\* the debug flag; debugging whenever there is an active document and a debug
\* session; editing only with an active document and no debug session. The
\* three texts differ, so exactly one is selected.
C2_Classification ==
    (last # None /\ ~last[1].l.config.RemoveDetails) =>
        LET r == last[1]
            idle == r.config.DetailsIdling
            debugging == <<"Debugging Code">>
            editing == <<"Playing Code">>
        IN  /\ Cardinality({idle, debugging, editing}) = 3
            /\ r.window = None => r.result.details = Some(idle)
            /\ (r.window # None /\ r.debug) => r.result.details = Some(debugging)
            /\ (r.window # None /\ ~r.debug) => r.result.details = Some(editing)
            /\ (r.result.details = Some(editing)) => (r.window # None /\ ~r.debug)

\* With no active document and a debug session, the idle text was returned
C2_Witness ==
    /\ last # None
    /\ ~last[1].l.config.RemoveDetails
    /\ last[1].window = None
    /\ last[1].debug
    /\ last[1].result.details = Some(last[1].config.DetailsIdling)

\* C3: in every payload each image slot holds the key and the text of one
\* pair (the idle pair, the host/debug pair, the file-icon pair), and the
\* swap-images option exchanges the two slots, key and text together.
C3_ImagePairs ==
    last # None =>
        LET r == last[1]
            idlePair == <<Some(IDLE_IMAGE_KEY), Some(r.l.config.LargeImageIdling)>>
            hostPair == <<Some(r.l.defaultSmallImageKey), Some(r.l.defaultSmallImageText)>>
            main == IF r.window = None THEN idlePair
                    ELSE <<Some(r.window[1].icon), Some(fileImageText(r.l, r.window[1].icon))>>
            large == <<r.result.largeImageKey, r.result.largeImageText>>
            small == <<r.result.smallImageKey, r.result.smallImageText>>
        IN  /\ main # hostPair
            /\ ~r.l.config.SwapBigAndSmallImage => (large = main /\ small = hostPair)
            /\ r.l.config.SwapBigAndSmallImage => (large = hostPair /\ small = main)

\* A swapped payload with an active document: the file icon and its text
\* are in the small slot
C3_Witness ==
    /\ last # None
    /\ last[1].l.config.SwapBigAndSmallImage
    /\ last[1].window # None
    /\ last[1].result.smallImageKey = Some(last[1].window[1].icon)
    /\ last[1].result.largeImageKey = Some(last[1].l.defaultSmallImageKey)

\* C4: the payload holds the repository button only when the option that
\* hides it is unset and a selected repository exists whose first remote has
\* a fetch URL; with no selected repository there is no button, however many
\* repositories exist.
C4_RepositoryButton ==
    last # None =>
        LET r == last[1]
            resolved ==
                /\ r.git # None
                /\ \E i \in 1..Len(r.git[1]) :
                       /\ r.git[1][i].selected
                       /\ Len(r.git[1][i].remotes) > 0
                       /\ r.git[1][i].remotes[1].fetchUrl # None
            noneSelected == r.git = None \/ \A i \in 1..Len(r.git[1]) : ~r.git[1][i].selected
        IN  /\ r.result.buttons # None => (resolved /\ ~r.l.config.RemoveRemoteRepository)
            /\ noneSelected => r.result.buttons = None

\* Of two repositories the second is the selected one, and the button shows
\* its URL without the credentials
C4_Witness ==
    /\ last # None
    /\ last[1].git # None
    /\ Len(last[1].git[1]) = 2
    /\ ~last[1].git[1][1].selected
    /\ last[1].result.buttons = Some(<<[label |-> "View Repository", url |-> GithubBrowseUrl]>>)

\* C5: for every editor state the payload holds a details line unless
\* hide-top-detail is set, and a state line unless hide-secondary-detail is
\* set.
C5_SlotsPresentUnlessHidden ==
    last # None =>
        LET r == last[1]
        IN  /\ (r.result.details # None) <=> ~r.l.config.RemoveDetails
            /\ (r.result.state # None) <=> ~r.l.config.RemoveLowerDetails

\* C6: the text of the details slot is the template configured for the
\* selected classification, passed through the substitutions of
\* fileDetails() when there is a document.
C6_ConfiguredTemplateUsed ==
    (last # None /\ ~last[1].l.config.RemoveDetails) =>
        LET r == last[1]
            template == IF r.window = None THEN r.config.DetailsIdling
                        ELSE IF r.debug THEN r.config.DetailsDebugging
                        ELSE r.config.DetailsEditing
        IN  r.result.details =
                Some(IF r.window = None THEN template
                     ELSE substituteGit(substituteLines(template, r.window[1]), r.git))

\* C7: the repository-URL normalization, applied to its own output, gives
\* the same URL, for every fetch URL of a recognized form.
C7_NormalizeIdempotent ==
    url.pc = "twice" => url.twice = url.once

\* C8: fileDetails() issues the stat only when the template holds the size
\* token and getGit() only when it holds the branch or the repository-name
\* token; a template with no token is returned unchanged.
C8_LazyQueries ==
    fd.pc # "idle" =>
        /\ fd.statCalls > 0 => includes(fd.template, <<REPLACE_KEYS.FileSize>>)
        /\ fd.gitCalls > 0 =>
               \/ includes(fd.template, <<REPLACE_KEYS.GitBranch>>)
               \/ includes(fd.template, <<REPLACE_KEYS.GitRepoName>>)
        /\ (fd.pc = "done" /\ fd.statCalls = 0 /\ fd.gitCalls = 0) => fd.result = Some(fd.template)

C10_StatFailureFallsBack ==
    (fd.pc # "idle" /\ fd.statFailed) =>
        /\ fd.pc \in {"git", "done"}
        /\ fd.size = Some(fd.document.textLength)
        /\ includes(fd.raw, formatSize(fd.document.textLength))
        /\ fd.pc = "done" =>
               /\ fd.result # None
               /\ includes(fd.result[1], formatSize(fd.document.textLength))
               /\ \A t \in {REPLACE_KEYS.FileSize, REPLACE_KEYS.GitBranch, REPLACE_KEYS.GitRepoName} :
                      Cardinality({i \in 1..Len(fd.template) : fd.template[i] = t}) <= 1
                          => ~includes(fd.result[1], <<t>>)

\* The stat failed on a document of 1500 characters, and the text returned
\* holds the size of the text and the branch
C10_Witness ==
    /\ fd.pc = "done"
    /\ fd.statFailed
    /\ fd.document.textLength = 1500
    /\ includes(fd.template, <<REPLACE_KEYS.GitBranch>>)
    /\ includes(fd.result[1], <<"1.50FILE_SIZES[1]">>)
    /\ includes(fd.result[1], <<"dev">>)

====
